---------------------------- MODULE Spec2Model ----------------------------
(***************************************************************************)
(* The Windows attach listener of HotSpot                                  *)
(* (src/hotspot/os/windows/attachListener_windows.cpp): a pool of          *)
(* preallocated Win32AttachOperationRequest objects, a FIFO list of        *)
(* enqueued requests protected by a mutex, a counting semaphore that wakes *)
(* the attach listener thread, and the pipe over which the reply is sent.  *)
(*                                                                         *)
(* Producer threads (native threads created by the client) run             *)
(* Win32AttachListener::enqueue; the attach listener thread runs           *)
(* Win32AttachListener::dequeue and Win32AttachOperation::complete.        *)
(* Every Win32 call that touches shared state is one step of its thread.   *)
(***************************************************************************)
EXTENDS Integers, Sequences, FiniteSets, TLC

(***************************************************************************)
(* Program constants.                                                      *)
(***************************************************************************)
max_enqueued_operations == 4
pipe_name_max == 256
ATTACH_ERROR_DISABLED == 100
ATTACH_ERROR_RESOURCE == 101
ATTACH_ERROR_ILLEGALARG == 102
ATTACH_ERROR_INTERNAL == 103
\* "if (sleep_count > 10)": the limit the sleep counter is compared with
sleep_limit == 10
\* services/attachListener.hpp (AttachOperation, AttachAPIVersion)
name_length_max == 16
arg_length_max == 1024
arg_count_max == 3
ATTACH_API_V1 == 1
ATTACH_API_V2 == 2
\* the null pointer; slots are numbered 1..max_enqueued_operations
nullptr == 0

(***************************************************************************)
(* Bounds of the model.                                                    *)
(***************************************************************************)
\* producer threads that run enqueue concurrently
NumProducers == 2
\* requests put on the list in one behaviour that fills the pool
MaxEnqueued == 5
\* requests put on the list in one behaviour of the arguments workload
MaxEnqueuedArgs == 2
\* requests put on the list in one behaviour of the fair specification
MaxEnqueuedLive == 2

(***************************************************************************)
(* C strings: a string is the sequence of its characters before the NUL.   *)
(***************************************************************************)
Min(a, b) == IF a < b THEN a ELSE b

Pad(n, c) == [i \in 1..n |-> c]

strlen(s) == Len(s)

\* strncpy(dst, str, n); dst[n] = '\0': the first n characters of str
strncpy(str, n) == SubSeq(str, 1, Min(Len(str), n))

\* does needle occur in hay at position i (1-based)
OccursAt(hay, needle, i) ==
    /\ i + Len(needle) - 1 <= Len(hay)
    /\ \A j \in 1..Len(needle) : hay[i + j - 1] = needle[j]

\* strstr(hay, needle): the position of the first occurrence of needle in
\* hay (1 is hay itself), or nullptr when there is none
strstr(hay, needle) ==
    LET hits == {i \in 1..Len(hay) : OccursAt(hay, needle, i)}
    IN  IF hits = {} THEN nullptr
        ELSE CHOOSE i \in hits : \A k \in hits : i <= k

\* "\\\\.\\pipe\\"
PipePrefix == <<"\\", "\\", ".", "\\", "p", "i", "p", "e", "\\">>

\* faulty variant: one character too few is copied
set_value_short(str, dst_size) == strncpy(str, dst_size - 2)

\* Win32AttachOperationRequest::set_value with str != nullptr
set_value(str, dst_size) == strncpy(str, dst_size - 1)

\* Win32AttachOperationRequest::set: the fields of a request
set(ver, pipename, cmd, arg0, arg1, arg2) ==
    [ver  |-> ver,
     name |-> set_value(cmd, name_length_max + 1),
     arg  |-> <<set_value(arg0, arg_length_max + 1),
                set_value(arg1, arg_length_max + 1),
                set_value(arg2, arg_length_max + 1)>>,
     pipe |-> set_value(pipename, pipe_name_max + 1)]

\* Win32AttachOperationRequest(): set(ATTACH_API_V1, "<nopipe>"), the
\* other parameters defaulting to nullptr, which set_value stores as ""
NoPipe == <<"<", "n", "o", "p", "i", "p", "e", ">">>

NewRequest ==
    [ver |-> ATTACH_API_V1, name |-> <<>>, arg |-> <<<<>>, <<>>, <<>>>>,
     pipe |-> set_value(NoPipe, pipe_name_max + 1)]

\* faulty variant: the length of the last argument is not checked
IllegalArg_arg2_unchecked(in) ==
    \/ strlen(in.cmd) > name_length_max
    \/ strlen(in.arg0) > arg_length_max
    \/ strlen(in.arg1) > arg_length_max
    \/ strlen(in.pipename) > pipe_name_max
    \/ strstr(in.pipename, PipePrefix) # 1

\* faulty variant: a pipe name is accepted when it contains the prefix anywhere
IllegalArg_prefix_anywhere(in) ==
    \/ strlen(in.cmd) > name_length_max
    \/ strlen(in.arg0) > arg_length_max
    \/ strlen(in.arg1) > arg_length_max
    \/ strlen(in.arg2) > arg_length_max
    \/ strlen(in.pipename) > pipe_name_max
    \/ strstr(in.pipename, PipePrefix) = nullptr

\* the parameter checks of enqueue: TRUE when enqueue returns
\* ATTACH_ERROR_ILLEGALARG
IllegalArg(in) ==
    \/ strlen(in.cmd) > name_length_max
    \/ strlen(in.arg0) > arg_length_max
    \/ strlen(in.arg1) > arg_length_max
    \/ strlen(in.arg2) > arg_length_max
    \/ strlen(in.pipename) > pipe_name_max
    \/ strstr(in.pipename, PipePrefix) # 1

(***************************************************************************)
(* The calls the producers make.  JVM_EnqueueOperation and                 *)
(* JVM_EnqueueOperation_v2 are the exported entry points; both call        *)
(* Win32AttachListener::enqueue, which is public and takes any version.    *)
(***************************************************************************)
Args(ver, cmd, arg0, arg1, arg2, pipename) ==
    [ver |-> ver, cmd |-> cmd, arg0 |-> arg0, arg1 |-> arg1, arg2 |-> arg2,
     pipename |-> pipename]

JVM_EnqueueOperation(cmd, arg0, arg1, arg2, pipename) ==
    Args(ATTACH_API_V1, cmd, arg0, arg1, arg2, pipename)

JVM_EnqueueOperation_v2(pipename) ==
    Args(ATTACH_API_V2, <<>>, <<>>, <<>>, <<>>, pipename)

\* a version tag that dequeue does not support
UnsupportedVersion == ATTACH_API_V2 + 1

CmdC == <<"C">>
CmdMax == Pad(name_length_max, "c")
CmdOver == Pad(name_length_max + 1, "c")
ArgA == <<"a">>
ArgMax == Pad(arg_length_max, "a")
ArgOver == Pad(arg_length_max + 1, "a")
PipeShort == PipePrefix \o <<"a">>
PipeMax == PipePrefix \o Pad(pipe_name_max - Len(PipePrefix), "b")
PipeOver == PipePrefix \o Pad(pipe_name_max + 1 - Len(PipePrefix), "b")
PipeNoPrefix == <<"p", "i", "p", "e">>
PipePrefixLater == <<"a">> \o PipePrefix \o <<"a">>
PipeNoPrefixMax == Pad(pipe_name_max, "x")
PipeNoPrefixOver == Pad(pipe_name_max + 1, "x")
PipePrefixCut == SubSeq(PipePrefix, 1, Len(PipePrefix) - 1)

\* the calls with arguments enqueue accepts
GoodInputs ==
    << JVM_EnqueueOperation(CmdC, ArgA, <<>>, <<>>, PipeShort),
       JVM_EnqueueOperation(CmdMax, ArgMax, ArgMax, ArgMax, PipeMax),
       JVM_EnqueueOperation_v2(PipeShort),
       Args(UnsupportedVersion, CmdC, ArgA, <<>>, <<>>, PipeShort) >>

\* the calls with one argument enqueue rejects
BadInputs ==
    << JVM_EnqueueOperation(CmdOver, ArgA, <<>>, <<>>, PipeShort),
       JVM_EnqueueOperation(CmdC, ArgOver, <<>>, <<>>, PipeShort),
       JVM_EnqueueOperation(CmdC, ArgA, ArgOver, <<>>, PipeShort),
       JVM_EnqueueOperation(CmdC, ArgA, <<>>, ArgOver, PipeShort),
       JVM_EnqueueOperation(CmdC, ArgA, <<>>, <<>>, PipeOver),
       JVM_EnqueueOperation_v2(PipeOver),
       JVM_EnqueueOperation(CmdC, ArgA, <<>>, <<>>, PipeNoPrefix),
       JVM_EnqueueOperation(CmdC, ArgA, <<>>, <<>>, PipePrefixLater),
       JVM_EnqueueOperation(CmdC, ArgA, <<>>, <<>>, PipeNoPrefixMax),
       JVM_EnqueueOperation(CmdC, ArgA, <<>>, <<>>, PipeNoPrefixOver),
       JVM_EnqueueOperation_v2(PipePrefixCut) >>

Inputs == GoodInputs \o BadInputs

InputIds == 1..Len(Inputs)

\* The workloads: the calls made (indices in Inputs), the threads that make
\* them and the number of requests put on the list.
\*   capacity:   one thread fills and refills the pool with V1 requests and
\*               requests of an unsupported version
\*   race:       two threads fill the pool with V1 requests
\*   concurrent: every thread makes one call, with a V1 or a V2 request
\*   arguments:  one thread makes every call of Inputs
\*   lockfail:   two threads enqueue V1 requests; the wait for the mutex
\*               may fail
\* once: a thread makes one call only
\* lockfail: the wait for the mutex may fail in enqueue
Workloads ==
    { [name |-> "capacity", ids |-> {1, 4}, max |-> MaxEnqueued,
       threads |-> {1}, once |-> FALSE, lockfail |-> FALSE],
      [name |-> "race", ids |-> {1}, max |-> MaxEnqueued,
       threads |-> {1, 2}, once |-> FALSE, lockfail |-> FALSE],
      [name |-> "concurrent", ids |-> {1, 3}, max |-> NumProducers + 1,
       threads |-> 1..NumProducers, once |-> TRUE, lockfail |-> FALSE],
      [name |-> "arguments", ids |-> InputIds, max |-> MaxEnqueuedArgs,
       threads |-> {1}, once |-> FALSE, lockfail |-> FALSE],
      [name |-> "lockfail", ids |-> {1}, max |-> MaxEnqueuedArgs,
       threads |-> {1, 2}, once |-> FALSE, lockfail |-> TRUE] }

\* The workloads of the fair specification, with V1 and V2 requests and
\* requests of an unsupported version; the wait for the mutex may fail.
\*   pair:   two threads make one call each
\*   single: one thread makes call after call
LiveWorkloads ==
    { [name |-> "pair", ids |-> {1, 3, 4}, max |-> max_enqueued_operations,
       threads |-> {1, 2}, once |-> TRUE, lockfail |-> TRUE],
      [name |-> "single", ids |-> {1, 3, 4}, max |-> MaxEnqueuedLive,
       threads |-> {1}, once |-> FALSE, lockfail |-> TRUE] }

\* what a client writes to the pipe of a V2 request: the command and its
\* arguments, as AttachOperation::read_request decodes them
WireRequests ==
    { [name |-> <<"j">>, arg |-> <<ArgA, <<>>, <<>>>>] }

(***************************************************************************)
(* Threads.                                                                *)
(***************************************************************************)
Producers == 1..NumProducers
Consumer == NumProducers + 1
Slots == 1..max_enqueued_operations
\* no enqueue call has returned yet to this thread
NoRet == 0 - 1

VARIABLES
    initialized,   \* AttachListener::is_initialized()
    mutex,         \* _mutex: the thread that owns it, or nullptr
    sem,           \* the count of _enqueued_ops_semaphore
    avail,         \* _avail: head of preallocated operations list
    head,          \* _head
    tail,          \* _tail
    req,           \* the fields of each Win32AttachOperationRequest
    next,          \* the _next link of each Win32AttachOperationRequest
    prod,          \* each producer: pc, arguments and locals of enqueue
    cpc,           \* where the attach listener thread is
    request,       \* dequeue's local "request"
    op,            \* dequeue's local "op": the Win32AttachOperation
    handles,       \* pipe handles open in the process
    vmdead,        \* a guarantee failed or the VM crashed
    owner,         \* history: the ticket of the enqueue that took each slot
    g,             \* history: counters
    load           \* the workload of this behaviour

vars == <<initialized, mutex, sem, avail, head, tail, req, next, prod, cpc,
          request, op, handles, vmdead, owner, g, load>>

shared == <<mutex, sem, avail, head, tail, req, next>>
lists == <<avail, head, tail, req, next>>
consumer == <<cpc, request, op, handles>>

(***************************************************************************)
(* Win32AttachListener::init.                                              *)
(***************************************************************************)
\* faulty variant: the loop of init ends one allocation early
RECURSIVE Preallocate_short(_, _)
Preallocate_short(i, st) ==
    IF i >= max_enqueued_operations - 1 THEN st
    ELSE LET o == i + 1
         IN  Preallocate_short(i + 1, <<o, [st[2] EXCEPT ![o] = st[1]]>>)

\* the loop of init: after i allocations, st is <<_avail, the _next links>>
RECURSIVE Preallocate(_, _)
Preallocate(i, st) ==
    IF i >= max_enqueued_operations THEN st
    ELSE LET o == i + 1        \* op = new Win32AttachOperationRequest()
         IN  Preallocate(i + 1, <<o, [st[2] EXCEPT ![o] = st[1]]>>)

init ==
    LET pool == Preallocate(0, <<nullptr, [s \in Slots |-> nullptr]>>)
    IN  /\ mutex = nullptr       \* CreateMutex(nullptr, FALSE, nullptr)
        /\ sem = 0               \* CreateSemaphore(nullptr, 0, max, nullptr)
        /\ head = nullptr
        /\ tail = nullptr
        /\ avail = pool[1]
        /\ next = pool[2]
        /\ req = [s \in Slots |-> NewRequest]

\* history: no enqueue call holds the slot
NoOwner == [ticket |-> 0, in |-> 0]

\* op == nullptr
NoOp == [st |-> "null", name |-> <<>>, arg |-> <<>>, hPipe |-> FALSE,
         pipe |-> <<>>, write_only |-> FALSE, from |-> NoOwner,
         nwrite |-> 0, nflush |-> 0, nclose |-> 0]

\* new Win32AttachOperation(): no name, no arguments, the pipe not opened
NewOp(from) == [NoOp EXCEPT !.st = "alive", !.from = from]

\* history: the calls are counted up to "more than pool capacity + 1"
ManyCalls == max_enqueued_operations + 2

IdleProducer == [pc |-> "idle", in |-> 0, sleep_count |-> 0, op |-> nullptr,
                 ret |-> NoRet, slept |-> 0]

\* the state when init has returned and no thread has run yet
Start ==
    /\ init
    /\ initialized = FALSE
    /\ prod = [p \in Producers |-> IdleProducer]
    /\ cpc = "start"
    /\ request = nullptr
    /\ op = NoOp
    /\ handles = 0
    /\ vmdead = FALSE
    /\ owner = [s \in Slots |-> NoOwner]
    /\ g = [calls |-> 0, nlinked |-> 0, nok |-> 0, npop |-> 0, lastTicket |-> 0,
            nfreed |-> 0, ndiscard |-> 0, nops |-> 0, lastReturned |-> 0,
            lockfailed |-> FALSE]

Init ==
    /\ Start
    /\ load \in Workloads

(***************************************************************************)
(* Win32AttachListener::enqueue, run by producer p.                        *)
(***************************************************************************)
\* the client's thread calls an entry point with the arguments Inputs[i]
Call(p, i) ==
    /\ ~vmdead
    /\ prod[p].pc = "idle"
    /\ i \in load.ids
    /\ p \in load.threads
    /\ load.once => prod[p].ret = NoRet
    /\ g.nlinked + Cardinality({q \in Producers : prod[q].pc # "idle"})
         < load.max
    /\ prod' = [prod EXCEPT ![p] = [pc |-> "wait", in |-> i, sleep_count |-> 0,
                                    op |-> nullptr, ret |-> NoRet,
                                    slept |-> 0]]
    /\ g' = [g EXCEPT !.calls = Min(@ + 1, ManyCalls)]
    /\ UNCHANGED <<initialized, shared, consumer, vmdead, owner, load>>

\* while (!AttachListener::is_initialized()): one turn of the loop
WaitSleep(p) ==
    /\ ~vmdead
    /\ prod[p].pc = "wait"
    /\ ~initialized
    /\ LET sleep_count == prod[p].sleep_count + 1     \* Sleep(1000)
       IN  IF sleep_count > sleep_limit
           THEN prod' = [prod EXCEPT ![p].pc = "idle",
                                     ![p].ret = ATTACH_ERROR_DISABLED,
                                     ![p].slept = sleep_count,
                                     ![p].sleep_count = 0]
           ELSE prod' = [prod EXCEPT ![p].sleep_count = sleep_count]
    /\ UNCHANGED <<initialized, shared, consumer, vmdead, owner, g, load>>

\* the loop ends: the listener is up and running
WaitDone(p) ==
    /\ ~vmdead
    /\ prod[p].pc = "wait"
    /\ initialized
    /\ prod' = [prod EXCEPT ![p].pc = "check", ![p].sleep_count = 0]
    /\ UNCHANGED <<initialized, shared, consumer, vmdead, owner, g, load>>

\* check that all parameters to the operation
CheckArgs(p) ==
    /\ ~vmdead
    /\ prod[p].pc = "check"
    /\ IF IllegalArg(Inputs[prod[p].in])
       THEN prod' = [prod EXCEPT ![p].pc = "idle",
                                 ![p].ret = ATTACH_ERROR_ILLEGALARG]
       ELSE prod' = [prod EXCEPT ![p].pc = "lock"]
    /\ UNCHANGED <<initialized, shared, consumer, vmdead, owner, g, load>>

\* faulty variant: the wait returns while another thread owns the mutex
Lock_barging(p) ==
    /\ ~vmdead
    /\ prod[p].pc = "lock"
    /\ mutex' = p
    /\ prod' = [prod EXCEPT ![p].pc = "link"]
    /\ UNCHANGED <<initialized, sem, lists, consumer, vmdead, owner, g, load>>

\* WaitForSingleObject(mutex(), INFINITE) returns WAIT_OBJECT_0
Lock(p) ==
    /\ ~vmdead
    /\ prod[p].pc = "lock"
    /\ mutex = nullptr
    /\ mutex' = p
    /\ prod' = [prod EXCEPT ![p].pc = "link"]
    /\ UNCHANGED <<initialized, sem, lists, consumer, vmdead, owner, g, load>>

\* faulty variant: the wait makes the caller the owner of the mutex and
\* the call returns without releasing it
LockFails_owning(p) ==
    /\ ~vmdead
    /\ prod[p].pc = "lock"
    /\ load.lockfail
    /\ mutex = nullptr
    /\ mutex' = p
    /\ prod' = [prod EXCEPT ![p].pc = "idle",
                            ![p].ret = ATTACH_ERROR_INTERNAL]
    /\ g' = [g EXCEPT !.lockfailed = TRUE]
    /\ UNCHANGED <<initialized, sem, lists, consumer, vmdead, owner, load>>

\* WaitForSingleObject(mutex(), INFINITE) fails (WAIT_FAILED): the caller
\* does not become the owner of the mutex.  The wait returns WAIT_ABANDONED
\* only after a thread has ended while it owned the mutex, and no thread
\* of this program ends between its wait and its ReleaseMutex.
LockFails(p) ==
    /\ ~vmdead
    /\ prod[p].pc = "lock"
    /\ load.lockfail
    /\ prod' = [prod EXCEPT ![p].pc = "idle",
                            ![p].ret = ATTACH_ERROR_INTERNAL]
    /\ g' = [g EXCEPT !.lockfailed = TRUE]
    /\ UNCHANGED <<initialized, shared, consumer, vmdead, owner, load>>

\* faulty variant: the request is put at the head of the list
add_to_head(o) ==
    /\ head' = o
    /\ next' = [next EXCEPT ![o] = head]
    /\ tail' = IF tail = nullptr THEN o ELSE tail

\* faulty variant: op->set_next(nullptr) is left out
add_to_tail_linked(o) ==
    /\ head' = IF tail = nullptr THEN o ELSE head
    /\ next' = IF tail = nullptr
               THEN next
               ELSE [next EXCEPT ![tail] = o]
    /\ tail' = o

\* "add to end (tail) of list": the links after o is appended
add_to_tail(o) ==
    /\ head' = IF tail = nullptr THEN o ELSE head
    /\ next' = IF tail = nullptr
               THEN [next EXCEPT ![o] = nullptr]
               ELSE [next EXCEPT ![o] = nullptr, ![tail] = o]
    /\ tail' = o

\* faulty variant: the request is not taken off the available list
Link_no_pop(p) ==
    /\ ~vmdead
    /\ prod[p].pc = "link"
    /\ LET o == avail
       IN  IF o # nullptr
           THEN /\ avail' = avail
                /\ add_to_tail(o)
                /\ prod' = [prod EXCEPT ![p].pc = "set", ![p].op = o]
                /\ owner' = [owner EXCEPT ![o] = [ticket |-> g.nlinked + 1,
                                                   in |-> prod[p].in]]
                /\ g' = [g EXCEPT !.nlinked = @ + 1]
           ELSE /\ prod' = [prod EXCEPT ![p].pc = "unlock", ![p].op = o]
                /\ UNCHANGED <<avail, head, tail, next, owner, g>>
    /\ UNCHANGED <<initialized, mutex, sem, req, consumer, vmdead, load>>

\* try to get an operation from the available list, add it to the list
Link(p) ==
    /\ ~vmdead
    /\ prod[p].pc = "link"
    /\ LET o == avail
       IN  IF o # nullptr
           THEN /\ avail' = next[o]
                /\ add_to_tail(o)
                /\ prod' = [prod EXCEPT ![p].pc = "set", ![p].op = o]
                /\ owner' = [owner EXCEPT ![o] = [ticket |-> g.nlinked + 1,
                                                   in |-> prod[p].in]]
                /\ g' = [g EXCEPT !.nlinked = @ + 1]
           ELSE /\ prod' = [prod EXCEPT ![p].pc = "unlock", ![p].op = o]
                /\ UNCHANGED <<avail, head, tail, next, owner, g>>
    /\ UNCHANGED <<initialized, mutex, sem, req, consumer, vmdead, load>>

\* faulty variant: the fields of the request are left as they were
Set_nothing(p) ==
    /\ ~vmdead
    /\ prod[p].pc = "set"
    /\ req' = req
    /\ prod' = [prod EXCEPT ![p].pc = "sem"]
    /\ UNCHANGED <<initialized, mutex, sem, avail, head, tail, next, consumer,
                   vmdead, owner, g, load>>

\* op->set(ver, pipename, cmd, arg0, arg1, arg2)
Set(p) ==
    /\ ~vmdead
    /\ prod[p].pc = "set"
    /\ LET in == Inputs[prod[p].in]
       IN  req' = [req EXCEPT ![prod[p].op] =
                     set(in.ver, in.pipename, in.cmd, in.arg0, in.arg1, in.arg2)]
    /\ prod' = [prod EXCEPT ![p].pc = "sem"]
    /\ UNCHANGED <<initialized, mutex, sem, avail, head, tail, next, consumer,
                   vmdead, owner, g, load>>

\* faulty variant: the semaphore is not released
Signal_lost(p) ==
    /\ ~vmdead
    /\ prod[p].pc = "sem"
    /\ prod' = [prod EXCEPT ![p].pc = "unlock"]
    /\ UNCHANGED <<initialized, shared, consumer, vmdead, owner, g, load>>

\* faulty variant: the semaphore is released by 2
Signal_twice(p) ==
    /\ ~vmdead
    /\ prod[p].pc = "sem"
    /\ IF sem + 2 <= max_enqueued_operations
       THEN /\ sem' = sem + 2
            /\ prod' = [prod EXCEPT ![p].pc = "unlock"]
            /\ UNCHANGED vmdead
       ELSE /\ vmdead' = TRUE
            /\ UNCHANGED <<sem, prod>>
    /\ UNCHANGED <<initialized, mutex, lists, consumer, owner, g, load>>

\* ReleaseSemaphore(enqueued_ops_semaphore(), 1, nullptr) and the guarantee
\* that it did not exceed the maximum count
Signal(p) ==
    /\ ~vmdead
    /\ prod[p].pc = "sem"
    /\ IF sem + 1 <= max_enqueued_operations
       THEN /\ sem' = sem + 1
            /\ prod' = [prod EXCEPT ![p].pc = "unlock"]
            /\ UNCHANGED vmdead
       ELSE /\ vmdead' = TRUE
            /\ UNCHANGED <<sem, prod>>
    /\ UNCHANGED <<initialized, mutex, lists, consumer, owner, g, load>>

\* faulty variant: success is returned whether or not a request was available
enqueue_result_zero(o) == 0

\* (op != nullptr) ? 0 : ATTACH_ERROR_RESOURCE
enqueue_result(o) == IF o # nullptr THEN 0 ELSE ATTACH_ERROR_RESOURCE

\* ReleaseMutex(mutex()); return (op != nullptr) ? 0 : ATTACH_ERROR_RESOURCE
Unlock(p) ==
    /\ ~vmdead
    /\ prod[p].pc = "unlock"
    /\ mutex' = nullptr
    /\ prod' = [prod EXCEPT ![p].pc = "idle", ![p].op = nullptr,
                  ![p].ret = enqueue_result(prod[p].op)]
    /\ g' = [g EXCEPT !.nok = IF enqueue_result(prod[p].op) = 0
                              THEN @ + 1 ELSE @]
    /\ UNCHANGED <<initialized, sem, lists, consumer, vmdead, owner, load>>

enqueue(p) ==
    \/ WaitSleep(p)
    \/ WaitDone(p)
    \/ CheckArgs(p)
    \/ Lock(p)
    \/ LockFails(p)
    \/ Link(p)
    \/ Set(p)
    \/ Signal(p)
    \/ Unlock(p)

(***************************************************************************)
(* The attach listener thread: Win32AttachListener::dequeue.               *)
(***************************************************************************)
\* the thread announces that the listener is up (after init) and enters
\* its loop: op = AttachListener::dequeue(); ...; op->complete(...)
ListenerReady ==
    /\ ~vmdead
    /\ cpc = "start"
    /\ initialized' = TRUE
    /\ cpc' = "sem"
    /\ UNCHANGED <<shared, prod, request, op, handles, vmdead,
                   owner, g, load>>

\* faulty variant: the wait returns without decreasing the count
SemWait_keeps_count ==
    /\ ~vmdead
    /\ cpc = "sem"
    /\ sem > 0
    /\ sem' = sem
    /\ cpc' = "lock"
    /\ UNCHANGED <<initialized, mutex, lists, prod, request, op, handles,
                   vmdead, owner, g, load>>

\* WaitForSingleObject(enqueued_ops_semaphore(), INFINITE): returns when the
\* count is greater than zero and decreases it by 1
SemWait ==
    /\ ~vmdead
    /\ cpc = "sem"
    /\ sem > 0
    /\ sem' = sem - 1
    /\ cpc' = "lock"
    /\ UNCHANGED <<initialized, mutex, lists, prod, request, op, handles,
                   vmdead, owner, g, load>>

\* WaitForSingleObject(mutex(), INFINITE)
CLock ==
    /\ ~vmdead
    /\ cpc = "lock"
    /\ mutex = nullptr
    /\ mutex' = Consumer
    /\ cpc' = "pop"
    /\ UNCHANGED <<initialized, sem, lists, prod, request, op, handles,
                   vmdead, owner, g, load>>

\* request = head(); if non-null, unlink it and switch on its version
Pop ==
    /\ ~vmdead
    /\ cpc = "pop"
    /\ request' = head
    /\ IF head # nullptr
       THEN /\ head' = next[head]
            /\ tail' = IF next[head] = nullptr THEN nullptr ELSE tail
            /\ g' = [g EXCEPT !.npop = @ + 1,
                              !.lastTicket = owner[head].ticket,
                              !.ndiscard = IF req[head].ver \in
                                              {ATTACH_API_V1, ATTACH_API_V2}
                                           THEN @ ELSE @ + 1]
            /\ IF req[head].ver = ATTACH_API_V1
               THEN \* op->set_name(request->cmd()); op->append_arg(...)
                    /\ op' = [NewOp(owner[head]) EXCEPT
                                !.name = req[head].name,
                                !.arg = [i \in 1..arg_count_max |->
                                           req[head].arg[i]]]
                    /\ cpc' = "open"
               ELSE IF req[head].ver = ATTACH_API_V2
               THEN /\ op' = NewOp(owner[head])
                    /\ cpc' = "open"
               ELSE \* unsupported version
                    /\ op' = NoOp
                    /\ cpc' = "putback"
       ELSE /\ op' = NoOp
            /\ cpc' = "putback"
            /\ UNCHANGED <<head, tail, g>>
    /\ UNCHANGED <<initialized, mutex, sem, avail, req, next, prod, handles,
                   vmdead, owner, load>>

\* faulty variant: the handle is not closed
close_nothing(o) == o

\* PipeChannel::close
close(o) ==
    IF o.hPipe THEN [o EXCEPT !.hPipe = FALSE, !.nclose = @ + 1] ELSE o

\* delete op; op = nullptr: ~PipeChannel closes the pipe if it is opened
DeleteInDequeue ==
    /\ op' = NoOp
    /\ handles' = handles - (close(op).nclose - op.nclose)
    /\ g' = [g EXCEPT !.ndiscard = @ + 1]

\* op->open_pipe(request->pipe(), write_only): CreateFile succeeds
OpenOk ==
    /\ ~vmdead
    /\ cpc = "open"
    /\ op' = [op EXCEPT !.hPipe = TRUE, !.pipe = req[request].pipe,
                        !.write_only = (req[request].ver = ATTACH_API_V1)]
    /\ handles' = handles + 1
    /\ cpc' = IF req[request].ver = ATTACH_API_V1 THEN "putback" ELSE "read"
    /\ UNCHANGED <<initialized, shared, prod, request, vmdead,
                   owner, g, load>>

\* CreateFile returns INVALID_HANDLE_VALUE
OpenFails ==
    /\ ~vmdead
    /\ cpc = "open"
    /\ DeleteInDequeue
    /\ cpc' = "putback"
    /\ UNCHANGED <<initialized, shared, prod, request, vmdead,
                   owner, load>>

\* op->read_request() decodes the request w from the pipe
ReadOk(w) ==
    /\ ~vmdead
    /\ cpc = "read"
    /\ op' = [op EXCEPT !.name = w.name, !.arg = w.arg]
    /\ cpc' = "putback"
    /\ UNCHANGED <<initialized, shared, prod, request, handles, vmdead,
                   owner, g, load>>

\* op->read_request() fails
ReadFails ==
    /\ ~vmdead
    /\ cpc = "read"
    /\ DeleteInDequeue
    /\ cpc' = "putback"
    /\ UNCHANGED <<initialized, shared, prod, request, vmdead,
                   owner, load>>

\* faulty variant: the request is linked to the available list, _avail is not set
put_back_lost(r) ==
    /\ next' = [next EXCEPT ![r] = avail]
    /\ avail' = avail

\* request->set_next(available()); set_available(request)
put_back(r) ==
    /\ next' = [next EXCEPT ![r] = avail]
    /\ avail' = r

\* put the operation back on the available list.  With request null the
\* store through it is undefined behaviour: the VM crashes on the access,
\* or the store is dropped and _avail becomes null.
PutBack ==
    /\ ~vmdead
    /\ cpc = "putback"
    /\ IF request # nullptr
       THEN /\ put_back(request)
            /\ owner' = [owner EXCEPT ![request] = NoOwner]
            /\ g' = [g EXCEPT !.nfreed = @ + 1]
            /\ cpc' = "unlock"
            /\ UNCHANGED vmdead
       ELSE \E crash \in BOOLEAN :
               /\ vmdead' = crash
               /\ avail' = IF crash THEN avail ELSE nullptr
               /\ cpc' = IF crash THEN cpc ELSE "unlock"
               /\ UNCHANGED <<next, owner, g>>
    /\ UNCHANGED <<initialized, mutex, sem, head, tail, req, prod, request,
                   op, handles, load>>

\* faulty variant: dequeue returns whatever op is
returns_op_always(o) == TRUE

\* if (op != nullptr) return op
returns_op(o) == o.st = "alive"

\* faulty variant: the mutex is released only when an operation is returned
CUnlock_on_success ==
    /\ ~vmdead
    /\ cpc = "unlock"
    /\ IF returns_op(op)
       THEN /\ mutex' = nullptr
            /\ cpc' = "exec"
            /\ g' = [g EXCEPT !.nops = @ + 1,
                              !.lastReturned = op.from.ticket]
       ELSE /\ mutex' = mutex
            /\ cpc' = "sem"
            /\ UNCHANGED g
    /\ UNCHANGED <<initialized, sem, lists, prod, request, op, handles,
                   vmdead, owner, load>>

\* ReleaseMutex(mutex()); if (op != nullptr) return op; else loop
CUnlock ==
    /\ ~vmdead
    /\ cpc = "unlock"
    /\ mutex' = nullptr
    /\ IF returns_op(op)
       THEN /\ cpc' = "exec"
            /\ g' = [g EXCEPT !.nops = @ + 1,
                              !.lastReturned = op.from.ticket]
       ELSE /\ cpc' = "sem"
            /\ UNCHANGED g
    /\ UNCHANGED <<initialized, sem, lists, prod, request, op, handles,
                   vmdead, owner, load>>

dequeue ==
    \/ SemWait
    \/ CLock
    \/ Pop
    \/ OpenOk
    \/ OpenFails
    \/ \E w \in WireRequests : ReadOk(w)
    \/ ReadFails
    \/ PutBack
    \/ CUnlock

(***************************************************************************)
(* Win32AttachOperation::complete, called by the attach listener thread    *)
(* on the operation dequeue returned.                                      *)
(***************************************************************************)
\* write_reply(&_pipe, result, result_stream): the result and the output
\* are written and the pipe is flushed
WriteReplyOk ==
    /\ ~vmdead
    /\ cpc = "exec"
    /\ op' = [op EXCEPT !.nwrite = @ + 1, !.nflush = @ + 1]
    /\ cpc' = "delete"
    /\ UNCHANGED <<initialized, shared, prod, request, handles, vmdead,
                   owner, g, load>>

\* write_reply: the write to the pipe fails; nothing is flushed
WriteReplyFails ==
    /\ ~vmdead
    /\ cpc = "exec"
    /\ cpc' = "delete"
    /\ UNCHANGED <<initialized, shared, prod, request, op, handles, vmdead,
                   owner, g, load>>

\* delete this: ~PipeChannel() { close(); }
DeleteThis ==
    /\ ~vmdead
    /\ cpc = "delete"
    /\ op' = [close(op) EXCEPT !.st = "deleted"]
    /\ handles' = handles - (close(op).nclose - op.nclose)
    /\ cpc' = "sem"
    /\ UNCHANGED <<initialized, shared, prod, request, vmdead,
                   owner, g, load>>

complete ==
    \/ WriteReplyOk
    \/ WriteReplyFails
    \/ DeleteThis

Next ==
    \/ \E p \in Producers : \E i \in InputIds : Call(p, i)
    \/ \E p \in Producers : enqueue(p)
    \/ ListenerReady
    \/ dequeue
    \/ complete

Spec == Init /\ [][Next]_vars

(***************************************************************************)
(* The fair specification.  The attach listener thread is scheduled: it    *)
(* takes the step of dequeue or complete it is at when that step stays     *)
(* possible, its pipe I/O ends (with success or failure), and its wait for *)
(* the mutex ends if the mutex is free again and again (the waiters of a   *)
(* Win32 mutex are served).  A producer that owns the mutex is scheduled   *)
(* until it has released it.                                               *)
(***************************************************************************)
InitLive ==
    /\ Start
    /\ load \in LiveWorkloads

\* the steps of the listener thread other than the wait for the mutex
ListenerStep ==
    \/ ListenerReady
    \/ SemWait
    \/ Pop
    \/ OpenOk
    \/ OpenFails
    \/ \E w \in WireRequests : ReadOk(w)
    \/ ReadFails
    \/ PutBack
    \/ CUnlock
    \/ complete

\* the steps of enqueue between the wait for the mutex and its release
CriticalSection(p) == Link(p) \/ Set(p) \/ Signal(p) \/ Unlock(p)

Fairness ==
    /\ WF_vars(ListenerStep)
    /\ SF_vars(CLock)
    /\ \A p \in Producers : WF_vars(CriticalSection(p))

LiveSpec == InitLive /\ [][Next]_vars /\ Fairness

(***************************************************************************)
(* Views of the state used by the properties below.                        *)
(***************************************************************************)
N == max_enqueued_operations

\* producer p has returned from a call of enqueue
Returned(p) == prod[p].pc = "idle" /\ prod[p].ret # NoRet

\* the arguments of p's current (or last) call
In(p) == Inputs[prod[p].in]

\* does the name begin with the prefix
HasPrefix(name) ==
    /\ Len(name) >= Len(PipePrefix)
    /\ \A j \in 1..Len(PipePrefix) : name[j] = PipePrefix[j]

\* every length is within its bound
WithinBounds(in) ==
    /\ Len(in.cmd) <= name_length_max
    /\ Len(in.arg0) <= arg_length_max
    /\ Len(in.arg1) <= arg_length_max
    /\ Len(in.arg2) <= arg_length_max
    /\ Len(in.pipename) <= pipe_name_max

ValidArgs(in) == WithinBounds(in) /\ HasPrefix(in.pipename)

\* the call was not turned away by the readiness wait or by the mutex
Served(p) ==
    prod[p].ret \notin {ATTACH_ERROR_DISABLED, ATTACH_ERROR_INTERNAL}

\* slots taken from the pool and not yet put back
Outstanding == g.nlinked - g.nfreed

(***************************************************************************)
(* C1: from a ready dispatcher with an empty list, each of the first N     *)
(* enqueue calls with valid arguments returns 0 (a call is turned away     *)
(* only by a failed mutex wait), and dequeue takes the requests in the     *)
(* order in which they were appended: the k-th request popped is the k-th  *)
(* one appended, the operation being built or returned is the one of the   *)
(* last request popped, and an operation is returned later than every      *)
(* operation of an earlier request.                                        *)
(***************************************************************************)
C1_FifoOrder ==
    /\ \A p \in Producers :
         (Returned(p) /\ g.calls <= N /\ ValidArgs(In(p)) /\ Served(p))
           => prod[p].ret = 0
    /\ g.lastTicket = g.npop
    /\ op.st = "alive" => op.from.ticket = g.npop
    /\ g.lastReturned <= g.npop
    /\ (cpc = "unlock" /\ returns_op(op)) => g.lastReturned < op.from.ticket
    /\ cpc \in {"exec", "delete"} => g.lastReturned = op.from.ticket

\* N calls were made, all returned 0, and dequeue has returned the N
\* operations, the last one for the N-th request
C1_Witness ==
    /\ g.calls = N
    /\ g.nok = N
    /\ g.nops = N
    /\ g.lastReturned = N
    /\ cpc = "exec"

(***************************************************************************)
(* C2: with N requests enqueued and none dequeued, the (N+1)th valid call  *)
(* returns ATTACH_ERROR_RESOURCE; enqueue returns it only when all N       *)
(* requests are out of the pool, and it does not wait for one: the steps   *)
(* that take a request from the pool and that release the mutex are always *)
(* enabled.  When dequeue has put a request back the pool is not empty,    *)
(* and an enqueue that finds fewer than N requests out gets one.           *)
(***************************************************************************)
C2_PoolExhausted ==
    /\ \A p \in Producers :
         (/\ Returned(p) /\ ValidArgs(In(p)) /\ Served(p)
          /\ g.calls = N + 1
          /\ g.npop = 0
          /\ g.nok - (IF prod[p].ret = 0 THEN 1 ELSE 0) >= N)
           => prod[p].ret = ATTACH_ERROR_RESOURCE
    /\ \A p \in Producers :
         /\ Returned(p) /\ prod[p].ret = ATTACH_ERROR_RESOURCE
              => g.nlinked >= N
         /\ (prod[p].pc = "unlock" /\ prod[p].op = nullptr) => Outstanding = N
         /\ (prod[p].pc = "link" /\ Outstanding < N) => avail # nullptr
         /\ prod[p].pc = "link" => ENABLED Link(p)
         /\ prod[p].pc = "unlock" => ENABLED Unlock(p)
    /\ cpc = "unlock" => (avail # nullptr /\ Outstanding < N)

\* N calls returned 0, one call returned ATTACH_ERROR_RESOURCE, dequeue put
\* a request back and the call after that returned 0
C2_Witness ==
    /\ prod[1].pc = "idle" /\ prod[1].ret = ATTACH_ERROR_RESOURCE
    /\ prod[2].pc = "idle" /\ prod[2].ret = 0
    /\ g.nok = N + 1
    /\ g.calls = N + 2
    /\ g.nfreed = 1

(***************************************************************************)
(* C3 as stated: a call with a command, an argument or a pipe name one     *)
(* character over its bound returns ATTACH_ERROR_ILLEGALARG in every       *)
(* state, also before the listener is initialized.                         *)
(***************************************************************************)
\* some parameter is one character longer than its bound
OverLength(in) ==
    \/ Len(in.cmd) = name_length_max + 1
    \/ Len(in.arg0) = arg_length_max + 1
    \/ Len(in.arg1) = arg_length_max + 1
    \/ Len(in.arg2) = arg_length_max + 1
    \/ Len(in.pipename) = pipe_name_max + 1

C3_Original ==
    \A p \in Producers :
      (Returned(p) /\ OverLength(In(p)))
        => prod[p].ret = ATTACH_ERROR_ILLEGALARG

\* the part of the state a rejected call must leave alone
untouched == <<mutex, sem, avail, head, tail, req, next>>

C3_State ==
    \A p \in Producers :
      /\ (prod[p].in # 0 /\ OverLength(In(p))) =>
           /\ prod[p].pc \in {"idle", "wait", "check"}
           /\ Returned(p) =>
                \/ prod[p].ret = ATTACH_ERROR_ILLEGALARG
                \/ /\ prod[p].ret = ATTACH_ERROR_DISABLED
                   /\ prod[p].slept > sleep_limit
      /\ (Returned(p) /\ prod[p].ret = ATTACH_ERROR_ILLEGALARG)
           => ~ValidArgs(In(p))

C3_Step ==
    \A p \in Producers :
      (/\ prod'[p] # prod[p]
       /\ prod'[p].in # 0
       /\ OverLength(Inputs[prod'[p].in]))
        => /\ UNCHANGED untouched
           /\ (prod[p].pc = "check" /\ initialized)
                => prod'[p].ret = ATTACH_ERROR_ILLEGALARG

(***************************************************************************)
(* C3 as amended: a call with a parameter one character over its bound     *)
(* returns ATTACH_ERROR_ILLEGALARG once the readiness wait has found the   *)
(* listener initialized, and ATTACH_ERROR_DISABLED when that wait times    *)
(* out; no step of such a call changes the mutex, the semaphore, the pool  *)
(* or the list; and enqueue returns ATTACH_ERROR_ILLEGALARG only for       *)
(* arguments that are over a bound or lack the prefix, so never for a      *)
(* length that is exactly the bound.                                       *)
(***************************************************************************)
C3_Amended == []C3_State /\ [][C3_Step]_vars

\* a call with an over-long last argument has returned
\* ATTACH_ERROR_ILLEGALARG
C3_Witness ==
    /\ Returned(1)
    /\ Len(In(1).arg2) = arg_length_max + 1
    /\ prod[1].ret = ATTACH_ERROR_ILLEGALARG

(***************************************************************************)
(* C4: a call whose pipe name does not begin with the prefix is rejected   *)
(* by the parameter check with ATTACH_ERROR_ILLEGALARG, whatever the       *)
(* length of the name and also when the prefix occurs later in the name;   *)
(* the call never gets as far as the mutex, so it takes nothing from the   *)
(* pool.                                                                   *)
(***************************************************************************)
C4_State ==
    \A p \in Producers :
      (prod[p].in # 0 /\ ~HasPrefix(In(p).pipename))
        => prod[p].pc \in {"idle", "wait", "check"}

C4_Step ==
    \A p \in Producers :
      (/\ prod[p].pc = "check"
       /\ prod'[p] # prod[p]
       /\ ~HasPrefix(In(p).pipename))
        => /\ prod'[p].pc = "idle"
           /\ prod'[p].ret = ATTACH_ERROR_ILLEGALARG
           /\ UNCHANGED untouched

C4_BadPrefix == []C4_State /\ [][C4_Step]_vars

\* a call with a name that contains the prefix after its first character
\* has returned ATTACH_ERROR_ILLEGALARG
C4_Witness ==
    /\ Returned(1)
    /\ In(1).pipename = PipePrefixLater
    /\ prod[1].ret = ATTACH_ERROR_ILLEGALARG

(***************************************************************************)
(* C5: dequeue returns to its caller only with an operation whose pipe is  *)
(* opened, the one of the request it popped last; every request popped     *)
(* before was either returned as an operation or discarded, and after a    *)
(* discard dequeue waits on the semaphore again.                           *)
(***************************************************************************)
C5_NeverNull ==
    /\ cpc \in {"exec", "delete"} =>
         /\ op.st = "alive"
         /\ op.hPipe
         /\ op.from.ticket = g.npop
    /\ cpc \in {"sem", "lock", "pop", "exec", "delete"} =>
         g.npop = g.nops + g.ndiscard

\* the first request was discarded and dequeue has returned the operation
\* of the second
C5_Witness ==
    /\ cpc = "exec"
    /\ g.npop = 2
    /\ g.ndiscard = 1
    /\ g.nops = 1
    /\ op.from.ticket = 2

(***************************************************************************)
(* C6: the operation dequeue returns for a V1 request has the command and  *)
(* the three arguments of the enqueue call, in order and in full.          *)
(***************************************************************************)
C6_RoundTripV1 ==
    (cpc \in {"exec", "delete"} /\ Inputs[op.from.in].ver = ATTACH_API_V1)
      => LET in == Inputs[op.from.in]
         IN  /\ op.name = in.cmd
             /\ op.arg = <<in.arg0, in.arg1, in.arg2>>

\* dequeue has returned the operation of a V1 request whose command and
\* arguments are all as long as their bounds
C6_Witness ==
    /\ cpc = "exec"
    /\ Inputs[op.from.in].ver = ATTACH_API_V1
    /\ Len(op.name) = name_length_max
    /\ \A i \in 1..arg_count_max : Len(op.arg[i]) = arg_length_max

(***************************************************************************)
(* C7: while the operation dequeue returned is being executed its pipe is  *)
(* open and has not been closed; complete writes and flushes the reply     *)
(* (nothing is flushed when the write fails), and when complete has        *)
(* returned the operation is deleted, its pipe was closed exactly once     *)
(* and no pipe handle is open.                                             *)
(***************************************************************************)
C7_CompleteClosesOnce ==
    /\ op.st = "deleted" =>
         /\ op.nclose = 1
         /\ ~op.hPipe
         /\ op.nwrite <= 1
         /\ op.nflush = op.nwrite
    /\ cpc \in {"exec", "delete"} =>
         /\ op.st = "alive"
         /\ op.hPipe
         /\ op.nclose = 0
         /\ handles = 1
    /\ cpc \in {"start", "sem", "lock", "pop"} =>
         /\ op.st # "alive"
         /\ handles = 0

\* complete has returned after a failed write
C7_Witness ==
    /\ cpc = "sem"
    /\ op.st = "deleted"
    /\ op.nwrite = 0
    /\ op.nclose = 1

(***************************************************************************)
(* C8: every one of the N requests is in exactly one place: on the         *)
(* available list, on the list of enqueued operations, or in the hands of  *)
(* dequeue between the pop and the put-back.                               *)
(***************************************************************************)
\* the requests reached from s through the _next links
RECURSIVE Chain(_, _)
Chain(s, fuel) ==
    IF s = nullptr \/ fuel = 0 THEN <<>>
    ELSE <<s>> \o Chain(next[s], fuel - 1)

PoolSeq == Chain(avail, N + 1)
QueueSeq == Chain(head, N + 1)
HeldSeq ==
    IF cpc \in {"open", "read", "putback"} /\ request # nullptr
    THEN <<request>> ELSE <<>>

C8_SlotsPartition ==
    LET all == PoolSeq \o QueueSeq \o HeldSeq
    IN  /\ Len(all) = N
        /\ {all[i] : i \in 1..Len(all)} = Slots

\* a request is on each list and one is in the hands of dequeue, after an
\* earlier one went through the whole cycle, while a producer is in enqueue
C8_Witness ==
    /\ cpc = "open"
    /\ head # nullptr
    /\ avail # nullptr
    /\ g.nfreed >= 1
    /\ \E p \in Producers : prod[p].pc = "lock"

(***************************************************************************)
(* C9 as stated: dequeue never returns more operations than enqueue calls  *)
(* returned 0, and when every producer has returned and the listener       *)
(* waits on the semaphore with count 0, it has returned exactly as many.   *)
(***************************************************************************)
Drained ==
    /\ \A p \in Producers : prod[p].pc = "idle"
    /\ cpc = "sem"
    /\ sem = 0

C9_Original ==
    /\ g.nops <= g.nok
    /\ Drained => g.nops = g.nok

(***************************************************************************)
(* C9 as amended: dequeue never returns more operations than enqueue calls *)
(* returned 0, and when every producer has returned and the listener       *)
(* waits on the semaphore with count 0, the operations returned and the    *)
(* requests discarded are together exactly as many.                        *)
(***************************************************************************)
C9_Amended ==
    /\ g.nops <= g.nok
    /\ Drained => g.nops + g.ndiscard = g.nok

\* two producers have each enqueued one request; one was returned as an
\* operation, one was discarded, and the list is drained
C9_Witness ==
    /\ Drained
    /\ prod[1].ret = 0
    /\ prod[2].ret = 0
    /\ g.nok = 2
    /\ g.nops = 1
    /\ g.ndiscard = 1

(***************************************************************************)
(* C10 as stated: enqueue sleeps at most 10 times while the listener is    *)
(* not initialized and returns ATTACH_ERROR_DISABLED after 10 sleeps.      *)
(***************************************************************************)
C10_TenSleeps ==
    \A p \in Producers :
      /\ prod[p].sleep_count <= sleep_limit
      /\ prod[p].slept <= sleep_limit
      /\ (Returned(p) /\ prod[p].ret = ATTACH_ERROR_DISABLED)
           => prod[p].slept = sleep_limit

(***************************************************************************)
(* C11: enqueue returns one of 0, 100, 101, 102, 103.  The only steps of a *)
(* call that change the pool, the list or the semaphore are the one that   *)
(* moves the first request of the pool to the tail of the list and, after  *)
(* it, the one that adds 1 to the semaphore; a call makes both or neither, *)
(* and it returns 0 exactly when it has made both.                         *)
(***************************************************************************)
ReturnCodes == {0, ATTACH_ERROR_DISABLED, ATTACH_ERROR_RESOURCE,
                ATTACH_ERROR_ILLEGALARG, ATTACH_ERROR_INTERNAL}

\* the call of p has moved a request and has not returned yet
HoldsRequest(p) == prod[p].op # nullptr

C11_State ==
    \A p \in Producers :
      /\ Returned(p) => prod[p].ret \in ReturnCodes
      /\ HoldsRequest(p) <=>
           \/ prod[p].pc \in {"set", "sem"}
           \/ prod[p].pc = "unlock" /\ Outstanding > 0 /\ tail # nullptr
                /\ owner[tail].in = prod[p].in /\ owner[tail].ticket = g.nlinked
                /\ prod[p].op = tail
      /\ HoldsRequest(p) => (mutex = p /\ tail = prod[p].op)

C11_Step ==
    \A p \in Producers :
      prod'[p] # prod[p] =>
        \* the step that moves a request
        /\ (prod[p].pc = "link" /\ prod'[p].op # nullptr) =>
             /\ PoolSeq = <<prod'[p].op>> \o PoolSeq'
             /\ QueueSeq' = QueueSeq \o <<prod'[p].op>>
             /\ prod'[p].pc = "set"
             /\ UNCHANGED sem
        \* the step that signals: only after the request was moved
        /\ prod[p].pc = "sem" =>
             /\ HoldsRequest(p)
             /\ sem' = sem + 1
             /\ prod'[p].pc = "unlock"
             /\ prod'[p].op = prod[p].op
             /\ UNCHANGED <<avail, head, tail, next>>
        \* setting the fields of the request moves nothing
        /\ prod[p].pc = "set" =>
             /\ prod'[p].pc = "sem"
             /\ UNCHANGED <<avail, head, tail, next, sem>>
        \* no other step changes anything
        /\ ~(\/ prod[p].pc = "link" /\ prod'[p].op # nullptr
             \/ prod[p].pc \in {"set", "sem"}) =>
             UNCHANGED <<avail, head, tail, next, req, sem>>
        \* the return: 0 exactly when the request was moved and signalled
        /\ (prod[p].pc # "idle" /\ prod'[p].pc = "idle") =>
             /\ prod'[p].ret \in ReturnCodes
             /\ prod'[p].ret = 0 <=> (prod[p].pc = "unlock" /\ HoldsRequest(p))
             /\ prod'[p].ret # 0 => ~HoldsRequest(p)
        \* a call that holds a request goes on to signal and to return
        /\ HoldsRequest(p) => prod[p].pc \in {"set", "sem", "unlock"}
        /\ (prod'[p].pc = "unlock" /\ prod'[p].op # nullptr)
             => prod[p].pc = "sem"

C11_ExactlyOneOrNothing == []C11_State /\ [][C11_Step]_vars

\* one call returned 0: one request is on the list, the pool has one less
\* and the semaphore counts 1; the other thread's call returned a failure
C11_Witness ==
    /\ prod[1].pc = "idle" /\ prod[1].ret = 0
    /\ prod[2].pc = "idle" /\ prod[2].ret = ATTACH_ERROR_RESOURCE
    /\ sem = max_enqueued_operations
    /\ Len(QueueSeq) = max_enqueued_operations
    /\ Len(PoolSeq) = 0

(***************************************************************************)
(* C12: under the fair specification the k-th request put on the list is   *)
(* eventually taken off it by dequeue, for every k: no request stays on    *)
(* the list forever.                                                       *)
(***************************************************************************)
\* g.nlinked counts the requests put on the list, g.npop those taken off;
\* the list is FIFO, so the k-th put on is the k-th taken off
MaxTicket == MaxEnqueuedLive + NumProducers

InPipeIO == cpc \in {"open", "read"}

C13_LockNotHeldAcrossIO == InPipeIO => mutex # Consumer

(***************************************************************************)
(* C14: the list of enqueued requests never holds more than N requests,    *)
(* and a step makes it longer only by taking a request from the available  *)
(* list, which gets one shorter.                                           *)
(***************************************************************************)
C14_State ==
    /\ Len(QueueSeq) <= N
    /\ Len(QueueSeq) + Len(PoolSeq) <= N
    /\ (head = nullptr) <=> (tail = nullptr)
    /\ tail # nullptr => (QueueSeq[Len(QueueSeq)] = tail /\ next[tail] = nullptr)

C14_Step ==
    Len(QueueSeq') > Len(QueueSeq) =>
      /\ Len(QueueSeq') = Len(QueueSeq) + 1
      /\ Len(PoolSeq') = Len(PoolSeq) - 1
      /\ avail # nullptr
      /\ QueueSeq'[Len(QueueSeq')] = avail

C14_QueueBounded == []C14_State /\ [][C14_Step]_vars

\* the list holds N requests, the pool is empty, and one more call has
\* the mutex and is about to look for a request
C14_Witness ==
    /\ Len(QueueSeq) = N
    /\ avail = nullptr
    /\ \E p \in Producers : prod[p].pc = "link"

(***************************************************************************)
(* C15 as stated: in every reachable state the count of the semaphore      *)
(* equals the length of the list of enqueued requests.                     *)
(***************************************************************************)
C15_Original == sem = Len(QueueSeq)

\* requests put on the list by a call that has not released the semaphore
\* yet (the call owns the mutex, so there is at most one)
Unsignalled == Cardinality({p \in Producers : prod[p].pc \in {"set", "sem"}})

\* 1 when dequeue has passed the wait on the semaphore and has not yet
\* taken the request off the list
Woken == IF cpc \in {"lock", "pop"} THEN 1 ELSE 0

(***************************************************************************)
(* C15 as amended: the count of the semaphore never exceeds the length of  *)
(* the list.  The list is longer by one for a request that enqueue has     *)
(* put on it and not yet signalled, and by one more when dequeue has       *)
(* passed the semaphore and not yet taken its request off the list; in     *)
(* every other state the two are equal.                                    *)
(***************************************************************************)
C15_Amended ==
    /\ sem <= Len(QueueSeq)
    /\ Len(QueueSeq) = sem + Unsignalled + Woken
    /\ Unsignalled <= 1

\* the count is 2 less than the length: dequeue waits for the mutex that
\* a producer owns, and that producer has not released the semaphore
C15_Witness ==
    /\ cpc = "lock"
    /\ \E p \in Producers : prod[p].pc = "sem"
    /\ Len(QueueSeq) = sem + 2
    /\ sem > 0

(***************************************************************************)
(* C16: when dequeue has passed the wait on the semaphore the list is not  *)
(* empty, and it stays so until dequeue, owning the mutex, takes the head  *)
(* off; the request dequeue then holds, and puts back on the available     *)
(* list, is never null, so no guarantee fails and the VM does not crash.   *)
(***************************************************************************)
C16_NoSpuriousWakeup ==
    /\ cpc \in {"lock", "pop"} => head # nullptr
    /\ cpc = "pop" => mutex = Consumer
    /\ cpc \in {"open", "read", "putback"} =>
         (request # nullptr /\ mutex = Consumer)
    /\ cpc = "putback" => ENABLED PutBack
    /\ ~vmdead

\* dequeue is about to take the only request off the list while a
\* producer waits for the mutex to add another
C16_Witness ==
    /\ cpc = "pop"
    /\ Len(QueueSeq) = 1
    /\ sem = 0
    /\ \E p \in Producers : prod[p].pc = "lock"

(***************************************************************************)
(* C17 as stated: there is no reachable state in which a request is on the *)
(* list, dequeue waits on the semaphore, and the count is zero.            *)
(***************************************************************************)
\* dequeue is in WaitForSingleObject on the semaphore
WaitsOnSemaphore == cpc = "sem"

C17_Original ==
    (head # nullptr /\ WaitsOnSemaphore) => sem > 0

(***************************************************************************)
(* C17 as amended: when a request is on the list and dequeue waits on the  *)
(* semaphore, the count is positive and the wait can return, except while  *)
(* the producer that put the last request on the list has not yet released *)
(* the semaphore; that producer owns the mutex and its next steps release  *)
(* the semaphore.                                                          *)
(***************************************************************************)
C17_Amended ==
    /\ (head # nullptr /\ WaitsOnSemaphore /\ Unsignalled = 0)
         => (sem > 0 /\ ENABLED SemWait)
    /\ (head # nullptr /\ WaitsOnSemaphore /\ sem = 0)
         => \E p \in Producers :
              /\ prod[p].pc \in {"set", "sem"}
              /\ mutex = p
              /\ tail = prod[p].op
              /\ Len(QueueSeq) = 1
              /\ prod[p].pc = "sem" => ENABLED Signal(p)

\* dequeue has served a request and waits on the semaphore again, with
\* requests on the list, the mutex free and a positive count
C17_Witness ==
    /\ WaitsOnSemaphore
    /\ g.npop >= 1
    /\ head # nullptr
    /\ mutex = nullptr
    /\ sem = Len(QueueSeq)

(***************************************************************************)
(* C18 as stated: when dequeue reads the command and the arguments of a V2 *)
(* request from the pipe, the request has already been put back on the     *)
(* available list.                                                         *)
(***************************************************************************)
\* the requests on the available list
Pool == {PoolSeq[i] : i \in 1..Len(PoolSeq)}

C18_SlotReturnedBeforeRead ==
    cpc = "read" => (request \in Pool /\ g.nfreed = g.npop)

(***************************************************************************)
(* C19: every iteration of dequeue that takes a request off the list puts  *)
(* that request back on the available list and then releases the mutex,    *)
(* whether it returns an operation or discards the request: outside the    *)
(* iteration every request taken off was put back and the listener thread  *)
(* does not own the mutex.                                                 *)
(***************************************************************************)
C19_State ==
    /\ cpc \in {"start", "sem", "lock", "exec", "delete"} =>
         (g.nfreed = g.npop /\ mutex # Consumer)
    /\ cpc = "pop" => g.nfreed = g.npop
    /\ cpc \in {"open", "read", "putback"} =>
         (g.nfreed = g.npop - 1 /\ request \notin Pool /\ mutex = Consumer)
    /\ cpc = "unlock" =>
         /\ g.nfreed = g.npop
         /\ avail = request
         /\ owner[request] = NoOwner
         /\ mutex = Consumer

\* the last step of an iteration releases the mutex, on every outcome
C19_Step ==
    (cpc = "unlock" /\ cpc' # "unlock") =>
      /\ mutex' = nullptr
      /\ cpc' = IF op.st = "alive" THEN "exec" ELSE "sem"
      /\ UNCHANGED <<avail, head, tail, next>>

C19_SlotAlwaysReturned == []C19_State /\ [][C19_Step]_vars

\* two iterations have ended, the first with an operation and the second
\* with a discard; every request is on the available list again
C19_Witness ==
    /\ cpc = "sem"
    /\ g.npop = 2
    /\ g.nfreed = 2
    /\ g.nops = 1
    /\ g.ndiscard = 1
    /\ op.st = "null"
    /\ Len(PoolSeq) = N
    /\ mutex = nullptr

(***************************************************************************)
(* C20: when init has returned and as long as no enqueue call has put a    *)
(* request on the list, the available list holds all N requests, each as   *)
(* its constructor left it, _head and _tail are null and the count of the  *)
(* semaphore is 0; the count never exceeds its maximum N.                  *)
(***************************************************************************)
C20_AfterInit ==
    /\ g.nlinked = 0 =>
         /\ Len(PoolSeq) = N
         /\ Pool = Slots
         /\ head = nullptr
         /\ tail = nullptr
         /\ sem = 0
         /\ \A s \in Slots : req[s] = NewRequest
    /\ g.calls = 0 => mutex = nullptr
    /\ sem <= max_enqueued_operations

\* the listener is up and waits on the semaphore; no enqueue call was made
C20_Witness ==
    /\ g.calls = 0
    /\ initialized
    /\ cpc = "sem"
    /\ Len(PoolSeq) = N
    /\ sem = 0

(***************************************************************************)
(* C21: when the wait for the mutex fails in enqueue the call returns      *)
(* ATTACH_ERROR_INTERNAL and that step changes neither the mutex nor the   *)
(* semaphore nor the lists.  The failure stays with that call: a thread    *)
(* that is not between its wait and its ReleaseMutex never owns the mutex, *)
(* the VM goes on, and a free mutex can be taken by every thread that      *)
(* waits for it.                                                           *)
(***************************************************************************)
\* the places of enqueue between the wait for the mutex and its release
InCriticalSection(p) == prod[p].pc \in {"link", "set", "sem", "unlock"}

C21_State ==
    /\ \A p \in Producers :
         /\ mutex = p => InCriticalSection(p)
         /\ (Returned(p) /\ prod[p].ret = ATTACH_ERROR_INTERNAL)
              => g.lockfailed
         /\ (mutex = nullptr /\ prod[p].pc = "lock") => ENABLED Lock(p)
    /\ (mutex = nullptr /\ cpc = "lock") => ENABLED CLock
    /\ ~vmdead

C21_Step ==
    \A p \in Producers :
      (prod[p].pc = "lock" /\ prod'[p].pc = "idle") =>
        /\ prod'[p].ret = ATTACH_ERROR_INTERNAL
        /\ UNCHANGED untouched

C21_LockFailureConfined == []C21_State /\ [][C21_Step]_vars

\* one thread made all the calls: a wait for the mutex failed, the call
\* after it returned 0, and dequeue has returned the operation of that
\* request
C21_Witness ==
    /\ g.lockfailed
    /\ prod[2].in = 0
    /\ Returned(1)
    /\ prod[1].ret = 0
    /\ g.nok = 1
    /\ g.nops = 1
    /\ cpc = "exec"

(***************************************************************************)
(* C22: the count of the semaphore never exceeds the length of the list,   *)
(* which never exceeds N; when enqueue is about to release the semaphore   *)
(* the count is below the length and below the maximum, so ReleaseSemaphore *)
(* succeeds and the guarantee after it never fails.                        *)
(***************************************************************************)
C22_SemaphoreBounded ==
    /\ sem <= Len(QueueSeq)
    /\ Len(QueueSeq) <= max_enqueued_operations
    /\ \A p \in Producers :
         prod[p].pc = "sem" =>
           /\ sem + 1 <= Len(QueueSeq)
           /\ sem + 1 <= max_enqueued_operations
           /\ ENABLED Signal(p)
    /\ ~vmdead

\* enqueue is about to release the semaphore to its maximum count while
\* another producer waits for the mutex
C22_Witness ==
    /\ sem = max_enqueued_operations - 1
    /\ prod[1].pc = "sem"
    /\ prod[2].pc = "lock"

(***************************************************************************)
(* C23: a thread is between its wait for the mutex and its ReleaseMutex    *)
(* exactly when it owns the mutex, so at most one thread is there at a     *)
(* time and no thread that has returned from enqueue, or has ended an      *)
(* iteration of dequeue, owns the mutex; the available list, the list of   *)
(* enqueued requests and the fields of the requests are read and changed   *)
(* only in steps of the thread that owns the mutex.                        *)
(***************************************************************************)
\* the places of dequeue between the wait for the mutex and its release
ConsumerInCriticalSection ==
    cpc \in {"pop", "open", "read", "putback", "unlock"}

InsideCount ==
    Cardinality({p \in Producers : InCriticalSection(p)})
      + (IF ConsumerInCriticalSection THEN 1 ELSE 0)

C23_State ==
    /\ \A p \in Producers : InCriticalSection(p) <=> mutex = p
    /\ ConsumerInCriticalSection <=> mutex = Consumer
    /\ InsideCount <= 1
    /\ mutex = nullptr <=> InsideCount = 0

C23_Step ==
    /\ <<avail, head, tail, next, req>>' # <<avail, head, tail, next, req>>
         => /\ mutex # nullptr
            /\ mutex' = mutex
            /\ IF mutex = Consumer
               THEN cpc' # cpc /\ prod' = prod
               ELSE prod'[mutex] # prod[mutex] /\ cpc' = cpc
                    /\ \A q \in Producers \ {mutex} : prod'[q] = prod[q]
    \* the steps that read _avail or _head are steps of the owner
    /\ \A p \in Producers :
         (prod[p].pc = "link" /\ prod'[p] # prod[p]) => mutex = p
    /\ (cpc = "pop" /\ cpc' # cpc) => mutex = Consumer

C23_MutualExclusion == []C23_State /\ [][C23_Step]_vars

\* a producer owns the mutex; the other producer and the listener thread
\* both wait for it
C23_Witness ==
    /\ mutex = 1
    /\ prod[1].pc = "link"
    /\ prod[2].pc = "lock"
    /\ cpc = "lock"

(***************************************************************************)
(* C24: every request on the list holds the version, the command, the      *)
(* arguments and the pipe name of the call that put it there, except the   *)
(* one request whose call owns the mutex and has not yet set its fields;   *)
(* the request dequeue is about to take off the list, and the request it   *)
(* holds while it builds the operation and opens the pipe, hold those of   *)
(* the call that queued them, also when the request was used before.       *)
(***************************************************************************)
\* the request s has the fields the call that took it was given
Populated(s) ==
    LET in == Inputs[owner[s].in]
    IN  /\ owner[s].in # 0
        /\ req[s].ver = in.ver
        /\ req[s].name = in.cmd
        /\ req[s].arg = <<in.arg0, in.arg1, in.arg2>>
        /\ req[s].pipe = in.pipename

\* the request s was put on the list by a call that has not set its fields
BeingSet(s) == \E p \in Producers : prod[p].pc = "set" /\ prod[p].op = s

C24_State ==
    /\ \A i \in 1..Len(QueueSeq) :
         Populated(QueueSeq[i]) \/ BeingSet(QueueSeq[i])
    /\ cpc = "pop" => Populated(head)
    /\ cpc \in {"open", "read", "putback"} =>
         (Populated(request) /\ ~BeingSet(request))
    /\ cpc = "open" => owner[request] = op.from

\* the fields of the request dequeue holds do not change
C24_Step ==
    (cpc \in {"open", "read", "putback"} /\ request # nullptr)
      => req'[request] = req[request]

C24_FieldsOfTheCall == []C24_State /\ [][C24_Step]_vars

\* the request that init left first on the available list
FirstAvailable == Preallocate(0, <<nullptr, [s \in Slots |-> nullptr]>>)[1]

\* dequeue is about to take the second request off the list: it is in the
\* request that held the first one, whose operation was completed, and it
\* was queued by a call with other arguments
C24_Witness ==
    /\ cpc = "pop"
    /\ head = FirstAvailable
    /\ owner[head].ticket = 2
    /\ op.st = "deleted"
    /\ op.from.ticket = 1
    /\ Inputs[op.from.in].ver # Inputs[owner[head].in].ver
    /\ Populated(head)

(***************************************************************************)
(* C25: whenever no thread owns the mutex, _head is null exactly when      *)
(* _tail is; when they are not null, _tail is the last request reached     *)
(* from _head through the _next links and its _next is null; no request    *)
(* is reached twice from _head, and none that is reached from _head is     *)
(* reached from _avail.                                                    *)
(***************************************************************************)
\* the requests on the list of enqueued requests
Queue == {QueueSeq[i] : i \in 1..Len(QueueSeq)}

C25_ListsConsistent ==
    mutex = nullptr =>
      /\ (head = nullptr) <=> (tail = nullptr)
      /\ head # nullptr =>
           /\ QueueSeq[Len(QueueSeq)] = tail
           /\ next[tail] = nullptr
      /\ Cardinality(Queue) = Len(QueueSeq)
      /\ Cardinality(Pool) = Len(PoolSeq)
      /\ Queue \cap Pool = {}
      /\ Queue \cup Pool = Slots

\* the mutex is free; after requests were taken off and put back, the
\* list holds several requests and the available list is not empty
C25_Witness ==
    /\ mutex = nullptr
    /\ g.nfreed >= 2
    /\ Len(QueueSeq) >= 2
    /\ Len(PoolSeq) >= 1
    /\ head # tail

=============================================================================
